---- MODULE Spec2Model ----
(***************************************************************************)
(* The diagram generator: the useFlowchartGenerator hook, the              *)
(* FlowchartBuilder component that drives it and the DiagramDebugger that  *)
(* validates what it produced.                                             *)
(*                                                                         *)
(* Texts (descriptions, completion responses, diagram definitions) are     *)
(* sequences of characters, each character a one-character string, so that *)
(* trimming, fence removal, keyword search and the per-line checks work on *)
(* characters as the code does.                                            *)
(***************************************************************************)
EXTENDS Integers, Sequences, FiniteSets, TLC

VARIABLES
    description,          \* FlowchartBuilder: useState('') description
    mermaidCode,          \* FlowchartBuilder: useState('') mermaidCode (the DiagramDefinition)
    isGenerating,         \* hook: useState(false)
    error,                \* hook: useState<string | null>(null)
    detectedDiagramType,  \* hook: useState<string>('')
    inflight,             \* the invokeLLM calls awaited, one record per pending handleGenerate
    toast,                \* the notification last shown by toast({...})
    service,              \* the answers the completion service may give (its stub)
    validationResult,     \* DiagramDebugger: useState validationResult
    validating,           \* validateMermaidSyntax runs suspended at await mermaid.parse
    validated,            \* the definition and parser verdict the stored validationResult came from
    preview,              \* FlowchartPreview: the container behind chartRef and what it shows
    isDebuggerVisible,    \* FlowchartBuilder: useState(false) isDebuggerVisible
    clipboard,            \* what navigator.clipboard.writeText last wrote
    download              \* the file the last click on the download anchor produced

\* What the copy and download handlers and the Debug toggle work on.
exportVars == <<isDebuggerVisible, clipboard, download>>

vars == <<description, mermaidCode, isGenerating, error, detectedDiagramType,
          inflight, toast, service, validationResult, validating, validated,
          preview, isDebuggerVisible, clipboard, download>>

----------------------------------------------------------------------------
(* Characters *)

NL == "\n"
SP == " "
TAB == "\t"
CR == "\r"
\* The backtick character U+0060 (a TLA+ string cannot hold it).
BT == "bt"

UpperCase == <<"A", "B", "C", "D", "E", "F", "G", "H", "I", "J", "K", "L", "M",
               "N", "O", "P", "Q", "R", "S", "T", "U", "V", "W", "X", "Y", "Z">>
LowerCase == <<"a", "b", "c", "d", "e", "f", "g", "h", "i", "j", "k", "l", "m",
               "n", "o", "p", "q", "r", "s", "t", "u", "v", "w", "x", "y", "z">>

\* String.prototype.trim's white space, as far as the texts here hold it.
IsSpace(c) == c \in {SP, NL, TAB, CR}

LowerChar(c) ==
    IF \E i \in 1..Len(UpperCase) : UpperCase[i] = c
    THEN LowerCase[CHOOSE i \in 1..Len(UpperCase) : UpperCase[i] = c]
    ELSE c

\* String.prototype.toLowerCase
ToLowerCase(s) == [i \in 1..Len(s) |-> LowerChar(s[i])]

RECURSIVE TrimStart(_)
TrimStart(s) ==
    IF s # <<>> /\ IsSpace(Head(s)) THEN TrimStart(Tail(s)) ELSE s

RECURSIVE TrimEnd(_)
TrimEnd(s) ==
    IF s # <<>> /\ IsSpace(s[Len(s)]) THEN TrimEnd(SubSeq(s, 1, Len(s) - 1)) ELSE s

\* String.prototype.trim
Trim(s) == TrimEnd(TrimStart(s))

StartsWith(s, p) == Len(p) <= Len(s) /\ SubSeq(s, 1, Len(p)) = p

\* String.prototype.includes
Includes(s, p) ==
    \E i \in 1..(Len(s) - Len(p) + 1) : SubSeq(s, i, i + Len(p) - 1) = p

\* s.replace(/<p>\n?/g, ''): every match of p, taken left to right, is removed
\* together with the line feed that follows it, if one does.
RECURSIVE ReplaceAll(_, _)
ReplaceAll(s, p) ==
    IF s = <<>> THEN <<>>
    ELSE IF StartsWith(s, p)
         THEN LET rest == SubSeq(s, Len(p) + 1, Len(s))
              IN  ReplaceAll(IF rest # <<>> /\ Head(rest) = NL THEN Tail(rest) ELSE rest, p)
         ELSE <<Head(s)>> \o ReplaceAll(Tail(s), p)

----------------------------------------------------------------------------
(* useFlowchartGenerator: the response clean-up and the type detection *)

Fence == <<BT, BT, BT>>
FenceMermaid == <<BT, BT, BT, "m", "e", "r", "m", "a", "i", "d">>

KwErDiagram == <<"e", "r", "D", "i", "a", "g", "r", "a", "m">>
KwSequenceDiagram == <<"s", "e", "q", "u", "e", "n", "c", "e", "D", "i", "a", "g", "r", "a", "m">>
KwClassDiagram == <<"c", "l", "a", "s", "s", "D", "i", "a", "g", "r", "a", "m">>
KwFlowchart == <<"f", "l", "o", "w", "c", "h", "a", "r", "t">>
KwGantt == <<"g", "a", "n", "t", "t">>
KwStateDiagram == <<"s", "t", "a", "t", "e", "D", "i", "a", "g", "r", "a", "m">>
KwJourney == <<"j", "o", "u", "r", "n", "e", "y">>
KwGraph == <<"g", "r", "a", "p", "h">>

\* The entries of the diagramTypes object, in the order Object.entries yields
\* them (the insertion order of its string keys).
diagramTypes == <<
    [key |-> KwErDiagram,       value |-> "Entity Relationship Diagram"],
    [key |-> KwSequenceDiagram, value |-> "Sequence Diagram"],
    [key |-> KwClassDiagram,    value |-> "Class Diagram"],
    [key |-> KwFlowchart,       value |-> "Flowchart"],
    [key |-> KwGantt,           value |-> "Gantt Chart"],
    [key |-> KwStateDiagram,    value |-> "State Diagram"],
    [key |-> KwJourney,         value |-> "User Journey"],
    [key |-> KwGraph,           value |-> "Graph Diagram"] >>

\* let mermaidCode = response.trim();
\* mermaidCode = mermaidCode.replace(/```mermaid\n?/g, '').replace(/```\n?/g, '');
CleanResponse(response) ==
    ReplaceAll(ReplaceAll(Trim(response), FenceMermaid), Fence)

\* The loop over Object.entries(diagramTypes) from entry i on: the value of the
\* first entry whose lower-cased key the lower-cased code includes.
RECURSIVE DetectFrom(_, _)
DetectFrom(code, i) ==
    IF i > Len(diagramTypes) THEN "Diagram"
    ELSE IF Includes(ToLowerCase(code), ToLowerCase(diagramTypes[i].key))
         THEN diagramTypes[i].value
         ELSE DetectFrom(code, i + 1)

\* The mutant of DetectType that compares without lower-casing.
DetectTypeCaseSensitive(code) ==
    LET hits == {i \in 1..Len(diagramTypes) : Includes(code, diagramTypes[i].key)}
    IN  IF hits = {} THEN "Diagram"
        ELSE diagramTypes[CHOOSE i \in hits : \A j \in hits : i <= j].value

DetectType(code) == DetectFrom(code, 1)

----------------------------------------------------------------------------
(* DiagramDebugger.validateMermaidSyntax: the heuristic checks *)

KwPie == <<"p", "i", "e">>
Arrow == <<"-", "-", ">">>
Dashes == <<"-", "-", "-">>

Digits == {"0", "1", "2", "3", "4", "5", "6", "7", "8", "9"}
Letters == {UpperCase[i] : i \in 1..Len(UpperCase)} \cup {LowerCase[i] : i \in 1..Len(LowerCase)}

\* The characters /[^a-zA-Z0-9_-]/ does not match.
IsNodeIdChar(c) == c \in Letters \cup Digits \cup {"_", "-"}

\* const validDiagramTypes = [...]
validDiagramTypes == <<KwFlowchart, KwGraph, KwSequenceDiagram, KwClassDiagram,
                       KwErDiagram, KwStateDiagram, KwJourney, KwGantt, KwPie>>

\* s.split(sep) for a one-character separator, cur being the piece being read.
RECURSIVE SplitChar(_, _, _)
SplitChar(s, sep, cur) ==
    IF s = <<>> THEN <<cur>>
    ELSE IF Head(s) = sep THEN <<cur>> \o SplitChar(Tail(s), sep, <<>>)
    ELSE SplitChar(Tail(s), sep, Append(cur, Head(s)))

\* mermaidCode.split('\n')
SplitLines(code) == SplitChar(code, NL, <<>>)

\* s.split(/-->|---/), cur being the piece being read.
RECURSIVE SplitConnectors(_, _)
SplitConnectors(s, cur) ==
    IF s = <<>> THEN <<cur>>
    ELSE IF StartsWith(s, Arrow) \/ StartsWith(s, Dashes)
         THEN <<cur>> \o SplitConnectors(SubSeq(s, 4, Len(s)), <<>>)
         ELSE SplitConnectors(Tail(s), Append(cur, Head(s)))

\* s.split(/[\[\(\{]/)[0]: what precedes the first opening bracket.
RECURSIVE BeforeBracket(_)
BeforeBracket(s) ==
    IF s = <<>> \/ Head(s) \in {"[", "(", "{"} THEN <<>>
    ELSE <<Head(s)>> \o BeforeBracket(Tail(s))

\* (s.match(/[...]/g) || []).length for the character class cs.
CountIn(s, cs) == Cardinality({i \in 1..Len(s) : s[i] \in cs})

\* lines[0]?.trim().toLowerCase() includes one of validDiagramTypes
HasDiagramType(code) ==
    LET firstLine == ToLowerCase(Trim(SplitLines(code)[1]))
    IN  \E k \in 1..Len(validDiagramTypes) :
            Includes(firstLine, ToLowerCase(validDiagramTypes[k]))

NoTypeWarning == [kind |-> "No diagram type declaration found in first line",
                  line |-> 0, text |-> <<>>]
BracketWarning(n, trimmedLine) ==
    [kind |-> "Unmatched brackets", line |-> n, text |-> trimmedLine]
NodeIdWarning(n, nodeId) ==
    [kind |-> "Node ID contains invalid characters", line |-> n, text |-> nodeId]

\* The mutant of UnmatchedBrackets that counts square brackets only.
UnmatchedSquareOnly(trimmedLine) ==
    CountIn(trimmedLine, {"["}) # CountIn(trimmedLine, {"]"})

\* openBrackets !== closeBrackets
UnmatchedBrackets(trimmedLine) ==
    CountIn(trimmedLine, {"[", "{"}) # CountIn(trimmedLine, {"]", "}"})

\* parts.forEach(part => ...) from part k on: a warning for each part whose
\* node id is not empty and holds a character outside a-zA-Z0-9_-.
RECURSIVE NodeIdWarnings(_, _, _)
NodeIdWarnings(parts, k, n) ==
    IF k > Len(parts) THEN <<>>
    ELSE LET nodeId == BeforeBracket(Trim(parts[k]))
         IN  (IF nodeId # <<>> /\ \E i \in 1..Len(nodeId) : ~IsNodeIdChar(nodeId[i])
              THEN <<NodeIdWarning(n, nodeId)>> ELSE <<>>)
             \o NodeIdWarnings(parts, k + 1, n)

\* The body of lines.forEach((line, index) => ...) for line number n = index + 1.
LineWarnings(line, n) ==
    LET trimmedLine == Trim(line)
    IN  IF trimmedLine = <<>> THEN <<>>
        ELSE (IF UnmatchedBrackets(trimmedLine)
              THEN <<BracketWarning(n, trimmedLine)>> ELSE <<>>)
             \o (IF Includes(trimmedLine, Arrow) \/ Includes(trimmedLine, Dashes)
                 THEN NodeIdWarnings(SplitConnectors(trimmedLine, <<>>), 1, n)
                 ELSE <<>>)

RECURSIVE WarningsFrom(_, _)
WarningsFrom(lines, n) ==
    IF n > Len(lines) THEN <<>>
    ELSE LineWarnings(lines[n], n) \o WarningsFrom(lines, n + 1)

\* The warnings array when validateMermaidSyntax reaches mermaid.parse.
HeuristicWarnings(code) ==
    (IF HasDiagramType(code) THEN <<>> ELSE <<NoTypeWarning>>)
    \o WarningsFrom(SplitLines(code), 1)

----------------------------------------------------------------------------
(* Bounds and the values the environment supplies *)

\* At most this many invokeLLM calls are let to be pending at once.
MaxInFlight == 2
\* The texts the classifier is applied to hold at most this many words.
MaxWords == 2

Null == "null"

BodyFlow == <<"f", "l", "o", "w", "c", "h", "a", "r", "t", SP, "T", "D", NL,
              SP, SP, "A", "-", "-", ">", "B">>
DescLogin == <<"U", "s", "e", "r", SP, "l", "o", "g", "i", "n">>

\* The same description typed with white space around it.
DescPadded == <<SP>> \o DescLogin \o <<NL>>

\* What the user may type into the description box.
Descriptions == {<<>>, <<SP, NL>>, DescPadded}

TextAnswer(t) == [kind |-> "text", text |-> t, isError |-> FALSE, message |-> ""]
NonTextAnswer == [kind |-> "nontext", text |-> <<>>, isError |-> FALSE, message |-> ""]
\* A rejection: with an Error object (isError) carrying message, or with another value.
Rejection(isErr, msg) == [kind |-> "reject", text |-> <<>>, isError |-> isErr, message |-> msg]

TagMermaid == <<"m", "e", "r", "m", "a", "i", "d">>

\* A response wrapped in fence lines: the opening fence with its language tag
\* (none for <<>>), the interior, and the closing fence on a line of its own.
Fenced(tag, interior) == Fence \o tag \o <<NL>> \o interior \o <<NL>> \o Fence

\* The responses of the stubbed completion service: the fenced flowchart of the
\* end-to-end scenario, a bare entity-relationship diagram, a fenced block
\* holding only an empty line, and a flowchart with an unclosed bracket.
StubTexts == {
    Fenced(TagMermaid, BodyFlow),
    KwErDiagram \o <<NL, SP, "A", SP, "{", SP, "}">>,
    Fenced(<<>>, <<>>),
    <<SP>> \o KwGraph \o <<SP, "T", "D", NL, "A", "[", "x", SP, "-", "-", ">", SP, "B", SP>> }

StubAnswers ==
    {TextAnswer(t) : t \in StubTexts}
    \cup {NonTextAnswer, Rejection(TRUE, "Network Error"), Rejection(FALSE, "timeout")}

\* The words the classifier's input texts are made of: every keyword, two of
\* them in another case, and text that holds none.
ClassifierWords == <<
    KwErDiagram, KwSequenceDiagram, KwClassDiagram, KwFlowchart, KwGantt,
    KwStateDiagram, KwJourney, KwGraph,
    <<"G", "R", "A", "P", "H">>, <<"F", "l", "o", "w", "C", "h", "a", "r", "t">>,
    <<SP, "T", "D", NL, "A">> >>

RECURSIVE WordTexts(_)
WordTexts(n) ==
    IF n = 0 THEN {<<>>}
    ELSE LET shorter == WordTexts(n - 1)
         IN  shorter \cup {t \o ClassifierWords[k] : t \in shorter, k \in 1..Len(ClassifierWords)}

ClassifierTexts == WordTexts(MaxWords)

\* The definitions the line checks are applied to hold at most this many lines.
MaxLines == 3

\* The lines they are made of: an empty line, an indented line with one "["
\* and no "]", a line with one opening and one closing character of different
\* kinds, a line with two opening characters and one closing, a line with a
\* closing brace only and a line with a parenthesis and no bracket.
CheckedLines == <<
    <<>>,
    <<SP, "A", "[">>,
    <<"[", "}">>,
    <<"{", "[", "]">>,
    <<"x", "}">>,
    <<"(", "A">> >>

RECURSIVE LineTexts(_)
LineTexts(n) ==
    IF n = 1 THEN {CheckedLines[k] : k \in 1..Len(CheckedLines)}
    ELSE LET shorter == LineTexts(n - 1)
         IN  shorter \cup {t \o <<NL>> \o CheckedLines[k] :
                               t \in shorter, k \in 1..Len(CheckedLines)}

CheckedTexts == LineTexts(MaxLines)

----------------------------------------------------------------------------
(* Notifications *)

NoToast == [title |-> "", description |-> <<>>, variant |-> "default"]
DescriptionRequiredToast ==
    [title |-> "Description required",
     description |-> <<"Please enter a description for your diagram">>,
     variant |-> "destructive"]
\* description: `Created a ${detectedDiagramType}`, with the value of
\* detectedDiagramType in the render whose handler is running.
SuccessToast(closureType) ==
    [title |-> "Diagram generated successfully",
     description |-> <<"Created a ", closureType>>,
     variant |-> "default"]
FailedToast(message) ==
    [title |-> "Generation failed", description |-> <<message>>, variant |-> "destructive"]

\* handleCopy's toast.
CodeCopiedToast ==
    [title |-> "Copied to clipboard",
     description |-> <<"Mermaid code has been copied to your clipboard">>,
     variant |-> "default"]
\* handleDownload's toast.
DownloadStartedToast ==
    [title |-> "Download started",
     description |-> <<"Mermaid file has been downloaded">>,
     variant |-> "default"]
\* The toast of the debugger's copyToClipboard.
ContentCopiedToast ==
    [title |-> "Copied to clipboard",
     description |-> <<"Content has been copied to your clipboard">>,
     variant |-> "default"]

EmptyDescriptionMessage == "Please provide a description for the diagram"
InvalidResponseMessage == "Invalid response from AI service"
FailedToGenerateMessage == "Failed to generate diagram"

----------------------------------------------------------------------------
(* The state after the components are mounted *)

EmptyValidation == [isValid |-> TRUE, errors |-> <<>>, warnings |-> <<>>]

\* The preview's container: not in the DOM (the loading indicator or the
\* empty-state placeholder is returned instead, chartRef.current is null),
\* in the DOM and empty with the render effect scheduled, in the DOM and empty
\* with no effect to come, showing the rendering of a definition, or showing
\* the 'Invalid Mermaid Syntax' placeholder.
Container(content, code) == [content |-> content, code |-> code]
Unmounted == Container("unmounted", <<>>)
Scheduled == Container("scheduled", <<>>)
Blank == Container("blank", <<>>)
Rendering(code) == Container("chart", code)
InvalidSyntax == Container("Invalid Mermaid Syntax", <<>>)

NothingCopied == [written |-> FALSE, text |-> <<>>]
Copied(text) == [written |-> TRUE, text |-> text]
NothingDownloaded == [started |-> FALSE, name |-> "", content |-> <<>>]
Downloaded(name, content) == [started |-> TRUE, name |-> name, content |-> content]

InitApp ==
    /\ description = <<>>
    /\ mermaidCode = <<>>
    /\ isGenerating = FALSE
    /\ error = Null
    /\ detectedDiagramType = ""
    /\ inflight = <<>>
    /\ toast = NoToast
    /\ validationResult = EmptyValidation
    /\ validating = {}
    /\ validated = [code |-> <<>>, verdict |-> "none"]
    /\ preview = Unmounted
    /\ isDebuggerVisible = FALSE
    /\ clipboard = NothingCopied
    /\ download = NothingDownloaded

Init == InitApp /\ service = StubAnswers

\* The classifier's inputs: the service is stubbed with one text of ClassifierTexts.
InitClassifier == InitApp /\ service \in {{TextAnswer(t)} : t \in ClassifierTexts}

\* The line checks' inputs: the service is stubbed with one text of CheckedTexts.
InitChecks == InitApp /\ service \in {{TextAnswer(t)} : t \in CheckedTexts}

----------------------------------------------------------------------------
(* DiagramDebugger: the validation effect and the parser's answers *)

\* The mutant of AcceptedResult that lets the heuristic warnings decide validity.
AcceptedOnlyWithoutWarnings(warnings) ==
    [isValid |-> warnings = <<>>, errors |-> <<>>, warnings |-> warnings]

\* setValidationResult({ isValid: true, errors, warnings }): nothing was pushed to errors.
AcceptedResult(warnings) == [isValid |-> TRUE, errors |-> <<>>, warnings |-> warnings]

\* errors.push(`Mermaid parse error: ${parseError}`);
\* setValidationResult({ isValid: false, errors, warnings })
RejectedResult(warnings, parseError) ==
    [isValid |-> FALSE, errors |-> <<<<"Mermaid parse error: ", parseError>>>>,
     warnings |-> warnings]

\* useEffect(() => { validateMermaidSyntax(); }, [mermaidCode]) for a render that
\* holds newCode: nothing when the definition did not change; the empty result at
\* once for a blank definition; otherwise the heuristic checks run and the
\* function suspends at await mermaid.parse(mermaidCode).
ValidateEffect(newCode) ==
    IF newCode = mermaidCode
    THEN UNCHANGED <<validationResult, validating, validated>>
    ELSE IF Trim(newCode) = <<>>
         THEN /\ validationResult' = EmptyValidation
              /\ validated' = [code |-> newCode, verdict |-> "none"]
              /\ UNCHANGED validating
         ELSE /\ validating' = validating \cup
                    {[code |-> newCode, warnings |-> HeuristicWarnings(newCode)]}
              /\ UNCHANGED <<validationResult, validated>>

\* mermaid.parse resolves for a suspended validation. Suspended runs over the same
\* definition hold the same warnings and are one element of validating.
MermaidParseAccepts ==
    \E run \in validating :
        /\ validating' = validating \ {run}
        /\ validationResult' = AcceptedResult(run.warnings)
        /\ validated' = [code |-> run.code, verdict |-> "accept"]
        /\ UNCHANGED <<description, mermaidCode, isGenerating, error,
                       detectedDiagramType, inflight, toast, service, preview,
                       exportVars>>

\* mermaid.parse throws (rejects) for a suspended validation.
MermaidParseRejects ==
    \E run \in validating :
        /\ validating' = validating \ {run}
        /\ validationResult' = RejectedResult(run.warnings, "Parse error")
        /\ validated' = [code |-> run.code, verdict |-> "reject"]
        /\ UNCHANGED <<description, mermaidCode, isGenerating, error,
                       detectedDiagramType, inflight, toast, service, preview,
                       exportVars>>

\* The mutant of ValidationErrorResult that forgets to mark the result invalid.
ValidationErrorResultValid(thrown) ==
    [isValid |-> TRUE, errors |-> <<<<"Validation error: ", thrown>>>>, warnings |-> <<>>]

\* The outer catch: setValidationResult({ isValid: false,
\* errors: [`Validation error: ${error}`], warnings: [] })
ValidationErrorResult(thrown) ==
    [isValid |-> FALSE, errors |-> <<<<"Validation error: ", thrown>>>>, warnings |-> <<>>]

\* A suspended validation resumes and a DOM call outside the inner try throws
\* (document.body.removeChild(tempDiv) when the page no longer holds tempDiv):
\* the outer catch stores its result in place of the parser's. The code in src
\* never detaches tempDiv itself; the step belongs to the faulty environment
\* of SpecFaults only.
ValidationThrows ==
    \E run \in validating :
        /\ validating' = validating \ {run}
        /\ validationResult' = ValidationErrorResult("NotFoundError")
        /\ validated' = [code |-> run.code, verdict |-> "threw"]
        /\ UNCHANGED <<description, mermaidCode, isGenerating, error,
                       detectedDiagramType, inflight, toast, service, preview,
                       exportVars>>

----------------------------------------------------------------------------
(* FlowchartBuilder and useFlowchartGenerator: generation *)

\* onChange={(e) => setDescription(e.target.value)}
SetDescription ==
    \E d \in Descriptions :
        /\ description' = d
        /\ UNCHANGED <<mermaidCode, isGenerating, error, detectedDiagramType, inflight,
                       toast, service, validationResult, validating, validated,
                       preview, exportVars>>

\* The mutant of GenerateEnabled for a button that is never disabled.
GenerateAlwaysEnabled == TRUE

\* The Generate button lets handleGenerate run: disabled={isGenerating || ...}.
\* The button's second condition, a blank description, is the one handleGenerate
\* checks again itself; the handler is modelled as reachable with a blank
\* description so that its own check is exercised.
GenerateEnabled == ~isGenerating

\* The mutant of DescriptionMissing that forgets to trim.
DescriptionEmptyUntrimmed(d) == d = <<>>

\* handleGenerate: if (!description.trim())
DescriptionMissing(d) == Trim(d) = <<>>

\* generateFlowchart: if (!description.trim()) throw new Error(...), before the
\* try block and before any state is set.
GenerateFlowchartThrows(d) == Trim(d) = <<>>

\* The mutant of ComposePrompt that embeds the trimmed description.
ComposePromptTrimmed(d) ==
    [description |-> Trim(d),
     rules |-> <<"erDiagram", "sequenceDiagram", "classDiagram", "flowchart TD",
                 "gantt", "stateDiagram-v2", "journey", "graph TD">>,
     examples |-> <<[title |-> "For ER Diagram:", declaration |-> "erDiagram"],
                    [title |-> "For Sequence Diagram:", declaration |-> "sequenceDiagram"],
                    [title |-> "For Class Diagram:", declaration |-> "classDiagram"],
                    [title |-> "For Flowchart:", declaration |-> "flowchart TD"]>>]

\* const prompt = `...`: the template's parts in their order. The description
\* is interpolated between quotes as it is; the decision rules name one
\* declaration per diagram type (the first of the two named for a flowchart is
\* kept); the examples are the blocks under "Examples:", each with its heading
\* and the declaration its code starts with.
ComposePrompt(d) ==
    [description |-> d,
     rules |-> <<"erDiagram", "sequenceDiagram", "classDiagram", "flowchart TD",
                 "gantt", "stateDiagram-v2", "journey", "graph TD">>,
     examples |-> <<[title |-> "For ER Diagram:", declaration |-> "erDiagram"],
                    [title |-> "For Sequence Diagram:", declaration |-> "sequenceDiagram"],
                    [title |-> "For Class Diagram:", declaration |-> "classDiagram"],
                    [title |-> "For Flowchart:", declaration |-> "flowchart TD"]>>]

\* The mutant of GenerateFlowchartBegins that leaves the detected type as it is.
GenerateFlowchartBeginsKeepingType(d) ==
    IF GenerateFlowchartThrows(d)
    THEN UNCHANGED <<isGenerating, detectedDiagramType, inflight>>
    ELSE /\ isGenerating' = TRUE
         /\ UNCHANGED detectedDiagramType
         /\ inflight' = Append(inflight,
                [description |-> d, prompt |-> ComposePrompt(d),
                 closureType |-> detectedDiagramType])

\* The hook state generateFlowchart leaves when it is entered with description
\* d: untouched when it throws for a blank d; otherwise the flag is set, the
\* detected type reset, the prompt composed and the function suspended at
\* await invokeLLM. (setError(null) repeats the handler's clearError().)
GenerateFlowchartBegins(d) ==
    IF GenerateFlowchartThrows(d)
    THEN UNCHANGED <<isGenerating, detectedDiagramType, inflight>>
    ELSE /\ isGenerating' = TRUE
         /\ detectedDiagramType' = ""
         /\ inflight' = Append(inflight,
                [description |-> d, prompt |-> ComposePrompt(d),
                 closureType |-> detectedDiagramType])

\* FlowchartPreview as the render committed by a step leaves it: the container
\* is out of the DOM while isLoading or while the definition is blank; a changed
\* definition schedules the render effect (deps [mermaidCode]); a container put
\* back for an unchanged definition starts empty and no effect runs for it.
CommitPreview ==
    preview' =
        IF isGenerating' \/ Trim(mermaidCode') = <<>> THEN Unmounted
        ELSE IF mermaidCode' # mermaidCode THEN Scheduled
        ELSE IF preview = Unmounted THEN Blank
        ELSE preview

\* handleGenerate up to its await: the toast and return for a blank description;
\* otherwise clearError() and the call of generateFlowchart(description), whose
\* immediate throw the handler's catch would show.
HandleGenerate ==
    /\ GenerateEnabled
    /\ Len(inflight) < MaxInFlight
    /\ IF DescriptionMissing(description)
       THEN /\ toast' = DescriptionRequiredToast
            /\ UNCHANGED <<isGenerating, error, detectedDiagramType, inflight>>
       ELSE /\ error' = Null
            /\ GenerateFlowchartBegins(description)
            /\ toast' = IF GenerateFlowchartThrows(description)
                        THEN FailedToast(EmptyDescriptionMessage)
                        ELSE toast
    /\ UNCHANGED <<description, mermaidCode, service, validationResult, validating,
                   validated, exportVars>>
    /\ CommitPreview

\* The mutant of GeneratingAfterFinally for a flag cleared on the success path only.
GeneratingWithoutFinally(kind) == kind # "text"

\* The flag after generateFlowchart's finally block, whatever way the call ended.
GeneratingAfterFinally(kind) == FALSE

\* The mutant of ErrorMessage that reports whatever the call rejected with.
ErrorMessageOfAnyValue(answer) ==
    IF answer.kind = "reject" THEN answer.message ELSE InvalidResponseMessage

\* The mutant of ErrorMessage that always reports the generic message.
ErrorMessageGeneric(answer) == FailedToGenerateMessage

\* catch (err): err instanceof Error ? err.message : 'Failed to generate diagram',
\* err being the Error thrown for a non-text response or the value invokeLLM
\* rejected with.
ErrorMessage(answer) ==
    IF answer.kind = "nontext" THEN InvalidResponseMessage
    ELSE IF answer.isError THEN answer.message
    ELSE FailedToGenerateMessage

Remove(seq, i) == SubSeq(seq, 1, i - 1) \o SubSeq(seq, i + 1, Len(seq))

\* invokeLLM resolves with a string for the i-th pending call: generateFlowchart
\* cleans it up, stores the detected type, clears the flag and returns the code;
\* handleGenerate then stores the code and shows the success toast, and the
\* render that follows runs the validation effect. The two continuations are
\* consecutive microtasks: no event handler runs between them.
InvokeLLMResolvesText ==
    \E i \in 1..Len(inflight), answer \in service :
        /\ answer.kind = "text"
        /\ LET code == CleanResponse(answer.text)
           IN  /\ detectedDiagramType' = DetectType(code)
               /\ mermaidCode' = code
               /\ ValidateEffect(code)
        /\ isGenerating' = GeneratingAfterFinally(answer.kind)
        /\ toast' = SuccessToast(inflight[i].closureType)
        /\ inflight' = Remove(inflight, i)
        /\ UNCHANGED <<description, error, service, exportVars>>
        /\ CommitPreview

\* invokeLLM resolves with something that is not a string: generateFlowchart
\* throws 'Invalid response from AI service' into its own catch.
InvokeLLMResolvesNonText ==
    \E i \in 1..Len(inflight), answer \in service :
        /\ answer.kind = "nontext"
        /\ error' = ErrorMessage(answer)
        /\ isGenerating' = GeneratingAfterFinally(answer.kind)
        /\ toast' = FailedToast(ErrorMessage(answer))
        /\ inflight' = Remove(inflight, i)
        /\ UNCHANGED <<description, mermaidCode, detectedDiagramType, service,
                       validationResult, validating, validated, exportVars>>
        /\ CommitPreview

\* The mutant of InvokeLLMRejects whose failure path drops the definition held.
InvokeLLMRejectsDiscarding ==
    \E i \in 1..Len(inflight), answer \in service :
        /\ answer.kind = "reject"
        /\ error' = ErrorMessage(answer)
        /\ isGenerating' = GeneratingAfterFinally(answer.kind)
        /\ toast' = FailedToast(ErrorMessage(answer))
        /\ inflight' = Remove(inflight, i)
        /\ mermaidCode' = <<>>
        /\ UNCHANGED <<description, detectedDiagramType, service,
                       validationResult, validating, validated, exportVars>>
        /\ CommitPreview

\* The pending call i rejects with the value answer: the catch stores the
\* message and throws a new Error with it, which handleGenerate's catch shows.
InvokeLLMRejectsWith(i, answer) ==
    /\ answer.kind = "reject"
    /\ error' = ErrorMessage(answer)
    /\ isGenerating' = GeneratingAfterFinally(answer.kind)
    /\ toast' = FailedToast(ErrorMessage(answer))
    /\ inflight' = Remove(inflight, i)
    /\ UNCHANGED <<description, mermaidCode, detectedDiagramType, service,
                   validationResult, validating, validated, exportVars>>
    /\ CommitPreview

\* invokeLLM rejects, with any value the service can reject with.
InvokeLLMRejects ==
    \E i \in 1..Len(inflight), answer \in service :
        InvokeLLMRejectsWith(i, answer)

Next ==
    \/ SetDescription
    \/ HandleGenerate
    \/ InvokeLLMResolvesText
    \/ InvokeLLMResolvesNonText
    \/ InvokeLLMRejects
    \/ MermaidParseAccepts
    \/ MermaidParseRejects

Spec == Init /\ [][Next]_vars

\* One stubbed response per behaviour: only a text answer can arrive. The parser
\* plays no part in the classification: its answers are left out, and a started
\* validation stays suspended.
NextClassifier ==
    \/ SetDescription
    \/ HandleGenerate
    \/ InvokeLLMResolvesText

SpecClassifier == InitClassifier /\ [][NextClassifier]_vars

\* One stubbed response per behaviour, validated each time it is stored.
NextChecks ==
    \/ SetDescription
    \/ HandleGenerate
    \/ InvokeLLMResolvesText
    \/ MermaidParseAccepts
    \/ MermaidParseRejects

SpecChecks == InitChecks /\ [][NextChecks]_vars

\* The generator and the debugger on a page where a DOM call of the validation
\* may fail. Failed generations store no definition and are left out.
NextFaults ==
    \/ SetDescription
    \/ HandleGenerate
    \/ InvokeLLMResolvesText
    \/ MermaidParseAccepts
    \/ MermaidParseRejects
    \/ ValidationThrows

SpecFaults == Init /\ [][NextFaults]_vars

----------------------------------------------------------------------------
(* FlowchartPreview: the render effect *)

\* The mutant of MermaidInitThrows for an effect without try and catch: the
\* container keeps the raw definition and the exception leaves the effect.
MermaidInitThrowsUncaught ==
    /\ preview = Scheduled
    /\ preview' = Blank
    /\ error' = "Render error"
    /\ UNCHANGED <<description, mermaidCode, isGenerating, detectedDiagramType,
                   inflight, toast, service, validationResult, validating, validated,
                   exportVars>>

\* The render effect runs for the container and mermaid.init draws the
\* definition.
MermaidInitRenders ==
    /\ preview = Scheduled
    /\ preview' = Rendering(mermaidCode)
    /\ UNCHANGED <<description, mermaidCode, isGenerating, error, detectedDiagramType,
                   inflight, toast, service, validationResult, validating, validated,
                   exportVars>>

\* The render effect runs and mermaid.init throws: the catch writes the
\* 'Invalid Mermaid Syntax' placeholder into the container.
MermaidInitThrows ==
    /\ preview = Scheduled
    /\ preview' = InvalidSyntax
    /\ UNCHANGED <<description, mermaidCode, isGenerating, error, detectedDiagramType,
                   inflight, toast, service, validationResult, validating, validated,
                   exportVars>>

\* The builder with its preview. The parser's answers go to the debugger only
\* and are left out.
NextPreview ==
    \/ SetDescription
    \/ HandleGenerate
    \/ InvokeLLMResolvesText
    \/ InvokeLLMResolvesNonText
    \/ InvokeLLMRejects
    \/ MermaidInitRenders
    \/ MermaidInitThrows

SpecPreview == Init /\ [][NextPreview]_vars

----------------------------------------------------------------------------
(* Copy, download and the Debug toggle *)

\* if (mermaidCode): a string is truthy unless it is empty.
HasCode(code) == code # <<>>

\* handleCopy. The Copy Code button is rendered only while a definition is
\* held; the handler is modelled as reachable without one so that its own
\* check is exercised.
HandleCopy ==
    /\ IF HasCode(mermaidCode)
       THEN /\ clipboard' = Copied(mermaidCode)
            /\ toast' = CodeCopiedToast
       ELSE UNCHANGED <<clipboard, toast>>
    /\ UNCHANGED <<description, mermaidCode, isGenerating, error, detectedDiagramType,
                   inflight, service, validationResult, validating, validated,
                   preview, isDebuggerVisible, download>>

\* handleDownload: a Blob of the definition, saved as diagram.mmd.
HandleDownload ==
    /\ IF HasCode(mermaidCode)
       THEN /\ download' = Downloaded("diagram.mmd", mermaidCode)
            /\ toast' = DownloadStartedToast
       ELSE UNCHANGED <<download, toast>>
    /\ UNCHANGED <<description, mermaidCode, isGenerating, error, detectedDiagramType,
                   inflight, service, validationResult, validating, validated,
                   preview, isDebuggerVisible, clipboard>>

\* setIsDebuggerVisible(!isDebuggerVisible): the Debug button of the builder,
\* the floating Debug button and the panel's hide button.
ToggleDebugger ==
    /\ isDebuggerVisible' = ~isDebuggerVisible
    /\ UNCHANGED <<description, mermaidCode, isGenerating, error, detectedDiagramType,
                   inflight, toast, service, validationResult, validating, validated,
                   preview, clipboard, download>>

\* The copy button of the debugger's Code tab: copyToClipboard(mermaidCode).
\* The button exists while the panel is visible; choosing the tab changes
\* nothing else and is not modelled.
CopyToClipboard ==
    /\ isDebuggerVisible
    /\ clipboard' = Copied(mermaidCode)
    /\ toast' = ContentCopiedToast
    /\ UNCHANGED <<description, mermaidCode, isGenerating, error, detectedDiagramType,
                   inflight, service, validationResult, validating, validated,
                   preview, isDebuggerVisible, download>>

\* The builder with its copy and download operations. Failed generations and
\* the parser's answers change nothing these operations read and are left out.
NextExport ==
    \/ SetDescription
    \/ HandleGenerate
    \/ InvokeLLMResolvesText
    \/ HandleCopy
    \/ HandleDownload
    \/ ToggleDebugger
    \/ CopyToClipboard

\* The service stubbed with one fenced flowchart and one response that is
\* only a pair of fences.
InitExport ==
    /\ InitApp
    /\ service = {TextAnswer(Fenced(TagMermaid, BodyFlow)), TextAnswer(Fenced(<<>>, <<>>))}

SpecExport == InitExport /\ [][NextExport]_vars

----------------------------------------------------------------------------
(* Properties *)

\* C1: generation is not re-entrant. At most one completion request is in
\* flight in every reachable state, and a request starts only in a state where
\* the generating flag is false and no earlier request is still pending.
C1_NotReentrant ==
    /\ [](Len(inflight) <= 1)
    /\ [][Len(inflight') > Len(inflight) => (~isGenerating /\ inflight = <<>>)]_vars

\* A second request is in flight after an earlier one resolved and was stored.
C1_Witness == isGenerating /\ Len(inflight) = 1 /\ mermaidCode # <<>>

\* C2: a generate attempt with a description that is blank after trimming ends
\* with the missing-input notification and issues no completion request, never
\* sets the generating flag and leaves the DiagramDefinition as it was.
C2_BlankAttemptFails ==
    [][(HandleGenerate /\ Trim(description) = <<>>) =>
          /\ toast' = DescriptionRequiredToast
          /\ inflight' = inflight
          /\ ~isGenerating /\ ~isGenerating'
          /\ mermaidCode' = mermaidCode]_vars

\* A blank attempt was made while a definition is held.
C2_Witness ==
    /\ toast = DescriptionRequiredToast
    /\ Trim(description) = <<>> /\ description # <<>>
    /\ mermaidCode # <<>>

\* C3: the generating flag is true exactly while a completion request is in
\* flight: it is set when the request starts and is false again as soon as the
\* request has settled, whether with text, with a non-text payload or by
\* rejecting.
C3_FlagTracksRequest == isGenerating <=> (inflight # <<>>)

\* A request settled with a non-text payload and the flag is false again.
C3_Witness ==
    ~isGenerating /\ inflight = <<>> /\ toast = FailedToast(InvalidResponseMessage)

\* C4 as stated: whenever a DiagramDefinition is held, the label is the
\* classification of that definition.
C4_LabelIsDerived ==
    mermaidCode # <<>> => detectedDiagramType = DetectType(mermaidCode)

\* C4 as amended: the label is stored on its own. It is empty while a generation
\* is in flight, and whenever it is not empty it is the classification of the
\* DiagramDefinition held.
C4_LabelWhenSet ==
    /\ isGenerating => detectedDiagramType = ""
    /\ detectedDiagramType # "" => detectedDiagramType = DetectType(mermaidCode)

\* A generation succeeded after an earlier one had produced a flowchart.
C4_Witness ==
    /\ detectedDiagramType = "Entity Relationship Diagram"
    /\ toast = SuccessToast("Flowchart")

\* C5 as stated: while a generation is in flight no DiagramDefinition is held.
C5_DiscardedOnStart == isGenerating => mermaidCode = <<>>

\* C5 as amended: starting a generation keeps the DiagramDefinition held; the
\* definition changes only in the step that settles a pending request, and then
\* to the cleaned-up text of a response of the service.
C5_ReplacedOnlyOnSuccess ==
    [][/\ HandleGenerate => mermaidCode' = mermaidCode
       /\ mermaidCode' # mermaidCode =>
            /\ isGenerating /\ Len(inflight') < Len(inflight)
            /\ \E answer \in service :
                  answer.kind = "text" /\ mermaidCode' = CleanResponse(answer.text)]_vars

\* A generation is in flight while the earlier definition is still held.
C5_Witness == isGenerating /\ mermaidCode # <<>> /\ detectedDiagramType = ""

\* C6: the response clean-up is idempotent: cleaning up a cleaned-up response
\* returns it unchanged. Every DiagramDefinition held is a cleaned-up response,
\* so cleaning it up again must change nothing.
C6_CleanUpIdempotent == CleanResponse(mermaidCode) = mermaidCode

\* C7: for a response made of an opening fence line (with the mermaid tag or
\* none), interior content and a closing fence line, the clean-up returns the
\* interior content and nothing else.
C7_FencesStripped ==
    \A tag \in {<<>>, TagMermaid}, interior \in {<<>>, BodyFlow} :
        ( /\ TextAnswer(Fenced(tag, interior)) \in service
          /\ toast.title = "Diagram generated successfully"
          /\ mermaidCode = CleanResponse(Fenced(tag, interior)) )
        => mermaidCode = interior

\* C8: the label stored for a cleaned-up text is the label of the first keyword,
\* in the order erDiagram, sequenceDiagram, classDiagram, flowchart, gantt,
\* stateDiagram, journey, graph, that the text holds when case is ignored, and
\* "Diagram" when it holds none; a text starting with erDiagram is an "Entity
\* Relationship Diagram", and one holding flowchart and graph (and none of the
\* three keywords before them) is a "Flowchart".
C8_FirstKeywordLabel ==
    LET order == <<KwErDiagram, KwSequenceDiagram, KwClassDiagram, KwFlowchart,
                   KwGantt, KwStateDiagram, KwJourney, KwGraph>>
        lower == ToLowerCase(mermaidCode)
        holds(k) == Includes(lower, ToLowerCase(order[k]))
        hits == {k \in 1..Len(order) : holds(k)}
        first == CHOOSE k \in hits : \A j \in hits : k <= j
        labelOf(key) ==
            diagramTypes[CHOOSE i \in 1..Len(diagramTypes) : diagramTypes[i].key = key].value
    IN  detectedDiagramType # "" =>
          /\ detectedDiagramType = IF hits = {} THEN "Diagram" ELSE labelOf(order[first])
          /\ StartsWith(mermaidCode, KwErDiagram)
                => detectedDiagramType = "Entity Relationship Diagram"
          /\ (holds(4) /\ holds(8) /\ ~holds(1) /\ ~holds(2) /\ ~holds(3))
                => detectedDiagramType = "Flowchart"

\* A text holding graph in capitals and then flowchart was labelled a flowchart.
C8_Witness ==
    /\ detectedDiagramType = "Flowchart"
    /\ StartsWith(mermaidCode, <<"G", "R", "A", "P", "H">>)

\* C9 as stated: for every non-empty definition the stored result is the
\* parser's verdict on it: valid with no errors when the parser accepted it,
\* invalid with at least one error when it rejected it, and in both cases with
\* the heuristic warnings of that definition.
C9_ParserDecidesNonEmpty ==
    validated.code # <<>> =>
        /\ validated.verdict \in {"accept", "reject"}
        /\ validated.verdict = "accept" =>
              validationResult.isValid /\ validationResult.errors = <<>>
        /\ validated.verdict = "reject" =>
              ~validationResult.isValid /\ Len(validationResult.errors) >= 1
        /\ validationResult.warnings = HeuristicWarnings(validated.code)

\* C9 as amended: the same for every definition that is not blank, that is, not
\* empty after trimming. (A definition of white space only is stored as valid
\* without the parser being asked.)
C9_ParserDecidesNonBlank ==
    Trim(validated.code) # <<>> =>
        /\ validated.verdict \in {"accept", "reject"}
        /\ validated.verdict = "accept" =>
              validationResult.isValid /\ validationResult.errors = <<>>
        /\ validated.verdict = "reject" =>
              ~validationResult.isValid /\ Len(validationResult.errors) >= 1
        /\ validationResult.warnings = HeuristicWarnings(validated.code)

\* The parser accepted a definition the heuristics warn about.
C9_Witness ==
    /\ validated.verdict = "accept"
    /\ validationResult.isValid
    /\ Len(validationResult.warnings) >= 1

\* C10 as stated: a blank attempt and a non-text response both end with a
\* notification of the failure and with the error state set to its message.
C10_BothSetErrorState ==
    [][/\ (HandleGenerate /\ Trim(description) = <<>>) =>
            /\ toast'.variant = "destructive"
            /\ error' \in {EmptyDescriptionMessage,
                           "Please enter a description for your diagram"}
       /\ InvokeLLMResolvesNonText =>
            /\ toast' = FailedToast(InvalidResponseMessage)
            /\ error' = InvalidResponseMessage]_vars

\* C10 as amended: both end with a notification of the failure; the non-text
\* response also sets the error state to its message, while the blank attempt
\* leaves the error state as it was.
C10_NotificationAndErrorState ==
    [][/\ (HandleGenerate /\ Trim(description) = <<>>) =>
            /\ toast' = DescriptionRequiredToast
            /\ error' = error
       /\ InvokeLLMResolvesNonText =>
            /\ toast' = FailedToast(InvalidResponseMessage)
            /\ error' = InvalidResponseMessage]_vars

\* A blank attempt was made after a non-text response: the notification is the
\* blank attempt's, the error state still the earlier failure's.
C10_Witness ==
    /\ toast = DescriptionRequiredToast
    /\ error = InvalidResponseMessage

\* C11 as stated: whatever value the completion call rejects with, an Error
\* or not, the notification and the inline error state carry that very value.
C11_RejectionUnchanged ==
    [][\A i \in 1..Len(inflight), answer \in service :
          InvokeLLMRejectsWith(i, answer) =>
              /\ error' = answer.message
              /\ toast' = FailedToast(answer.message)]_vars

\* C11 as amended: an Error's message is carried to the notification and the
\* error state; any other rejected value is replaced by the generic message.
C11_ErrorMessageKept ==
    [][\A i \in 1..Len(inflight), answer \in service :
          InvokeLLMRejectsWith(i, answer) =>
              LET shown == IF answer.isError THEN answer.message
                                             ELSE "Failed to generate diagram"
              IN  /\ error' = shown
                  /\ toast' = FailedToast(shown)]_vars

\* The call rejected with a value that is not an Error while a definition from
\* an earlier generation is held.
C11_Witness ==
    /\ error = "Failed to generate diagram"
    /\ toast = FailedToast("Failed to generate diagram")
    /\ inflight = <<>> /\ mermaidCode # <<>>

\* C12: every copy and download operation offered is a no-op while the
\* DiagramDefinition is empty: no clipboard write, no file and no notification,
\* the copy button of the debugger panel included.
C12_NoOpWhenEmpty ==
    [][((HandleCopy \/ HandleDownload \/ CopyToClipboard) /\ mermaidCode = <<>>) =>
          UNCHANGED <<clipboard, download, toast>>]_vars

\* C13: for every DiagramDefinition validated and every line of it that is not
\* blank, the stored warnings hold exactly one bracket-mismatch warning with
\* that line's 1-based position in the full text when the line's number of "["
\* and "{" differs from its number of "]" and "}", and none when they are equal.
C13_OneBracketWarningPerLine ==
    validated.verdict \in {"accept", "reject"} =>
        LET lines == SplitLines(validated.code)
            warnings == validationResult.warnings
            Opening(line) == Cardinality({i \in DOMAIN line : line[i] \in {"[", "{"}})
            Closing(line) == Cardinality({i \in DOMAIN line : line[i] \in {"]", "}"}})
            Reported(n) == Cardinality({k \in DOMAIN warnings :
                                /\ warnings[k].kind = "Unmatched brackets"
                                /\ warnings[k].line = n})
        IN  \A n \in DOMAIN lines :
                Trim(lines[n]) # <<>> =>
                    Reported(n) = IF Opening(lines[n]) # Closing(lines[n]) THEN 1 ELSE 0

\* A definition was validated whose third line, after an empty second line,
\* has one "[" and no "]": the warning stored for it carries position 3.
C13_Witness ==
    /\ validated.verdict = "accept"
    /\ Len(SplitLines(validated.code)) = 3
    /\ SplitLines(validated.code)[2] = <<>>
    /\ SplitLines(validated.code)[3] = <<SP, "A", "[">>
    /\ \E k \in DOMAIN validationResult.warnings :
          validationResult.warnings[k] = BracketWarning(3, <<"A", "[">>)

C15_ResultOfCurrentDefinition ==
    validating = {} => validated.code = mermaidCode

\* C16: a failure of the rendering library at render time is caught inside the
\* preview: the container then shows the invalid-syntax placeholder, the
\* DiagramDefinition, error state, generating flag and label are unchanged and
\* a generation can be submitted again.
C16_RenderFailureContained ==
    [][MermaidInitThrows =>
          /\ preview' = InvalidSyntax
          /\ UNCHANGED <<mermaidCode, error, isGenerating, detectedDiagramType>>
          /\ GenerateEnabled'
          /\ inflight' = <<>>]_vars

\* The rendering of a generated flowchart definition failed: the placeholder
\* is shown, no error is set and the Generate button is enabled.
C16_Witness ==
    /\ preview = InvalidSyntax
    /\ detectedDiagramType = "Flowchart"
    /\ Trim(mermaidCode) # <<>>
    /\ error = Null
    /\ GenerateEnabled /\ inflight = <<>>

\* C17: whenever no generation is in flight and the DiagramDefinition is not
\* empty, the preview container shows a rendering of the current definition or
\* the invalid-syntax placeholder, once the render effect scheduled for the
\* definition has run.
C17_PreviewShowsDefinition ==
    (~isGenerating /\ inflight = <<>> /\ mermaidCode # <<>> /\ preview # Scheduled) =>
        preview \in {Rendering(mermaidCode), InvalidSyntax}

\* C18: a failed generation, from a non-text response or from a rejected call,
\* leaves the DiagramDefinition as it was, sets the error state to the failure
\* message and leaves the label at the empty string it was reset to; only a
\* generation that succeeds changes the DiagramDefinition.
C18_FailureKeepsDefinition ==
    [][/\ InvokeLLMResolvesNonText =>
            /\ mermaidCode' = mermaidCode
            /\ error' = "Invalid response from AI service"
            /\ detectedDiagramType = "" /\ detectedDiagramType' = ""
       /\ \A i \in 1..Len(inflight), answer \in service :
            InvokeLLMRejectsWith(i, answer) =>
                /\ mermaidCode' = mermaidCode
                /\ error' = IF answer.isError THEN answer.message
                                              ELSE "Failed to generate diagram"
                /\ detectedDiagramType = "" /\ detectedDiagramType' = ""
       /\ mermaidCode' # mermaidCode => InvokeLLMResolvesText]_vars

\* A generation failed with a rejected call while a definition from an
\* earlier generation is held: the definition is still there, the label empty.
C18_Witness ==
    /\ error = "Network Error"
    /\ toast = FailedToast("Network Error")
    /\ mermaidCode # <<>>
    /\ detectedDiagramType = ""
    /\ ~isGenerating

\* C19: in every ValidationResult the debugger stores, isValid is true exactly
\* when errors is empty: for the result of an empty definition, for the results
\* after the parser accepted or rejected, and for the result stored when the
\* validation itself throws, which is invalid with exactly one error and with
\* the warnings discarded.
C19_ValidIffNoErrors ==
    /\ validationResult.isValid <=> validationResult.errors = <<>>
    /\ validated.verdict = "threw" =>
          /\ ~validationResult.isValid
          /\ Len(validationResult.errors) = 1
          /\ validationResult.warnings = <<>>

\* The validation of a definition the heuristics warn about threw: the result
\* stored is invalid with one error and no warnings.
C19_Witness ==
    /\ validated.verdict = "threw"
    /\ HeuristicWarnings(validated.code) # <<>>
    /\ ~validationResult.isValid
    /\ Len(validationResult.errors) = 1

====
